---- MODULE Spec2Model ----
(***************************************************************************)
(* Student Fee Manager (src/student1.py): the strict-schema record store,   *)
(* the business-rule recomputation, search / due-date filtering and the     *)
(* reminder loop of FeeManagerApp, as a state machine.                      *)
(*                                                                          *)
(* Text is a sequence of one-character strings, so that strip(), lower(),   *)
(* str(), strftime(), to_datetime() and str.contains() are computed.        *)
(* A cell of a DataFrame is a tagged value: a Python str, an int, or NaN    *)
(* (what pandas reads from a blank spreadsheet cell).                       *)
(***************************************************************************)
EXTENDS Integers, Sequences, FiniteSets, TLC

VARIABLES
    disk,             \* the file system: path -> spreadsheet file
    clock,            \* the calendar day date.today() reads
    files,            \* self.files: display name -> (path, dataframe)
    combo,            \* the items of self.combo
    selected_name,    \* self.selected_name ("" models None)
    current_df_view,  \* self.current_df_view (<<>> models None / empty)
    ops,              \* how many handlers have changed the store so far
    last              \* the handler that took effect last, its input and outcome

vars == <<disk, clock, files, combo, selected_name, current_df_view, ops, last>>

----------------------------------------------------------------------------
(* Bounds of the model *)

\* rows a table may grow to through add_row
MaxRows == 3
\* calendar days the clock may advance through
MaxDay == 1
\* store-changing handlers (create, open, save, add, edit, delete) of a session
MaxOps == 2

----------------------------------------------------------------------------
(* Text *)

Digits == <<"0", "1", "2", "3", "4", "5", "6", "7", "8", "9">>

IsDigit(c) == \E k \in 1..10 : Digits[k] = c

DigitVal(c) == (CHOOSE k \in 1..10 : Digits[k] = c) - 1

\* str(n) of a non-negative int
RECURSIVE NatToStr(_)
NatToStr(n) == IF n < 10 THEN <<Digits[n + 1]>>
               ELSE NatToStr(n \div 10) \o <<Digits[(n % 10) + 1]>>

\* str(n) of an int
IntToStr(n) == IF n < 0 THEN <<"-">> \o NatToStr(-n) ELSE NatToStr(n)

\* int(s) of a string of digits
RECURSIVE StrToNat(_)
StrToNat(s) == IF Len(s) = 0 THEN 0
               ELSE 10 * StrToNat(SubSeq(s, 1, Len(s) - 1)) + DigitVal(s[Len(s)])

AllDigits(s) == Len(s) > 0 /\ \A i \in 1..Len(s) : IsDigit(s[i])

\* zero-padded decimal, as %Y / %m / %d and yyyy / MM / dd print it
RECURSIVE Pad(_, _)
Pad(s, width) == IF Len(s) >= width THEN s ELSE Pad(<<"0">> \o s, width)

\* str.strip()
RECURSIVE LStrip(_)
LStrip(s) == IF Len(s) > 0 /\ s[1] = " " THEN LStrip(Tail(s)) ELSE s

RECURSIVE RStrip(_)
RStrip(s) == IF Len(s) > 0 /\ s[Len(s)] = " "
             THEN RStrip(SubSeq(s, 1, Len(s) - 1)) ELSE s

Strip(s) == RStrip(LStrip(s))

\* str.lower(), on the letters the model's texts use
LowerChar(c) == CASE c = "J" -> "j"
                  [] c = "O" -> "o"
                  [] c = "A" -> "a"
                  [] c = "L" -> "l"
                  [] c = "N" -> "n"
                  [] OTHER -> c

Lower(s) == [i \in 1..Len(s) |-> LowerChar(s[i])]

----------------------------------------------------------------------------
(* Cells *)

Nan == [t |-> "nan", s |-> <<>>, n |-> 0]

StrCell(x) == [t |-> "str", s |-> x, n |-> 0]

IntCell(i) == [t |-> "int", s |-> <<>>, n |-> i]

\* Python truth value of a cell: NaN is a non-zero float, hence true
Truthy(c) == CASE c.t = "nan" -> TRUE
               [] c.t = "str" -> c.s # <<>>
               [] c.t = "int" -> c.n # 0

\* str(value), as Series.astype(str) and str() give it
str_of(c) == CASE c.t = "nan" -> <<"n", "a", "n">>
              [] c.t = "str" -> c.s
              [] c.t = "int" -> IntToStr(c.n)

\* pd.to_numeric(errors='coerce').fillna(0).astype(int) on one cell
ToInt(c) == CASE c.t = "int" -> c.n
              [] c.t = "nan" -> 0
              [] c.t = "str" -> IF AllDigits(c.s) THEN StrToNat(c.s) ELSE 0

----------------------------------------------------------------------------
(* Dates *)

IsLeap(y) == (y % 4 = 0 /\ y % 100 # 0) \/ y % 400 = 0

DaysIn(y, m) == CASE m \in {4, 6, 9, 11} -> 30
                  [] m = 2 -> IF IsLeap(y) THEN 29 ELSE 28
                  [] OTHER -> 31

NaT == [ok |-> FALSE, y |-> 0, m |-> 0, d |-> 0]

Date(y, m, d) == [ok |-> TRUE, y |-> y, m |-> m, d |-> d]

NextDate(dt) == IF dt.d < DaysIn(dt.y, dt.m) THEN Date(dt.y, dt.m, dt.d + 1)
                ELSE IF dt.m < 12 THEN Date(dt.y, dt.m + 1, 1)
                ELSE Date(dt.y + 1, 1, 1)

\* the day the session starts on
FirstDay == Date(2025, 3, 31)

RECURSIVE DateOf(_)
DateOf(k) == IF k = 0 THEN FirstDay ELSE NextDate(DateOf(k - 1))

\* strftime(DATE_FORMAT) and QDate.toString("yyyy-MM-dd")
FormatDate(dt) == Pad(NatToStr(dt.y), 4) \o <<"-">> \o Pad(NatToStr(dt.m), 2)
                  \o <<"-">> \o Pad(NatToStr(dt.d), 2)

today_str(day) == FormatDate(DateOf(day))

\* pd.to_datetime(errors='coerce') on a text: an ISO calendar date, or NaT
ParseDateText(s) ==
    IF /\ Len(s) = 10
       /\ s[5] = "-" /\ s[8] = "-"
       /\ \A i \in {1, 2, 3, 4, 6, 7, 9, 10} : IsDigit(s[i])
    THEN LET y == StrToNat(SubSeq(s, 1, 4))
             m == StrToNat(SubSeq(s, 6, 7))
             d == StrToNat(SubSeq(s, 9, 10))
         IN IF y >= 1 /\ m \in 1..12 /\ d >= 1 /\ d <= DaysIn(y, m)
            THEN Date(y, m, d) ELSE NaT
    ELSE NaT

\* pd.to_datetime(errors='coerce') on a cell of the Due Date column
to_datetime(c) == CASE c.t = "nan" -> NaT
                    [] c.t = "str" -> ParseDateText(c.s)

----------------------------------------------------------------------------
(* Schema and records *)

STRICT_COLUMNS == <<"Name", "Mobile Number", "Year", "Dept",
                    "Fee Amount", "Fee Paid", "Balance",
                    "Due Date", "Email", "Fee Paid On">>

Columns == {STRICT_COLUMNS[i] : i \in 1..Len(STRICT_COLUMNS)}

\* one row of a DataFrame with the strict columns
Row(name, mobile, year, dept, amount, paid, balance, due, email, paidOn) ==
    [c \in Columns |->
        CASE c = "Name" -> name
          [] c = "Mobile Number" -> mobile
          [] c = "Year" -> year
          [] c = "Dept" -> dept
          [] c = "Fee Amount" -> amount
          [] c = "Fee Paid" -> paid
          [] c = "Balance" -> balance
          [] c = "Due Date" -> due
          [] c = "Email" -> email
          [] c = "Fee Paid On" -> paidOn]

\* mutant: the header is compared as a set of names, not as a list
HeaderRejected_AnyOrder(header) ==
    {header[i] : i \in 1..Len(header)} # Columns \/ Len(header) # Len(STRICT_COLUMNS)

\* the header check of open_file: list(df.columns) != STRICT_COLUMNS
HeaderRejected(header) == header # STRICT_COLUMNS

\* os.path.basename of a path given as its components
basename(path) == path[Len(path)]

----------------------------------------------------------------------------
(* Business rules *)

\* mutant: the balance is not clipped at 0
RecalcRow_NoClip(r, day) ==
    LET amt == ToInt(r["Fee Amount"])
        paid == ToInt(r["Fee Paid"])
        bal == amt - paid
        r1 == [r EXCEPT !["Fee Amount"] = IntCell(amt),
                        !["Fee Paid"] = IntCell(paid),
                        !["Balance"] = IntCell(bal)]
    IN IF bal = 0
       THEN [r1 EXCEPT !["Fee Paid On"] =
                           IF ~Truthy(@) THEN StrCell(today_str(day)) ELSE @,
                       !["Due Date"] = StrCell(<<>>)]
       ELSE [r1 EXCEPT !["Fee Paid On"] = StrCell(<<>>)]

\* mutant: a paid record is stamped with the current date at every recompute
RecalcRow_Restamp(r, day) ==
    LET amt == ToInt(r["Fee Amount"])
        paid == ToInt(r["Fee Paid"])
        bal == IF amt - paid < 0 THEN 0 ELSE amt - paid
        r1 == [r EXCEPT !["Fee Amount"] = IntCell(amt),
                        !["Fee Paid"] = IntCell(paid),
                        !["Balance"] = IntCell(bal)]
    IN IF bal = 0
       THEN [r1 EXCEPT !["Fee Paid On"] = StrCell(today_str(day)),
                       !["Due Date"] = StrCell(<<>>)]
       ELSE [r1 EXCEPT !["Fee Paid On"] = StrCell(<<>>)]

\* the loop body of _recalculate_business_rules, after the numeric columns
RecalcRow(r, day) ==
    LET amt == ToInt(r["Fee Amount"])
        paid == ToInt(r["Fee Paid"])
        bal == IF amt - paid < 0 THEN 0 ELSE amt - paid
        r1 == [r EXCEPT !["Fee Amount"] = IntCell(amt),
                        !["Fee Paid"] = IntCell(paid),
                        !["Balance"] = IntCell(bal)]
    IN IF bal = 0
       THEN [r1 EXCEPT !["Fee Paid On"] =
                           IF ~Truthy(@) THEN StrCell(today_str(day)) ELSE @,
                       !["Due Date"] = StrCell(<<>>)]
       ELSE [r1 EXCEPT !["Fee Paid On"] = StrCell(<<>>)]

_recalculate_business_rules(df, day) ==
    [i \in 1..Len(df) |-> RecalcRow(df[i], day)]

----------------------------------------------------------------------------
(* Spreadsheet files *)

\* DataFrame.to_excel then pd.read_excel on one cell: an empty text is written
\* as a blank cell, and a blank cell is read as NaN
ExcelCell(c) == IF c = StrCell(<<>>) THEN Nan ELSE c

to_excel(df) == [readable |-> TRUE,
                 header |-> STRICT_COLUMNS,
                 rows |-> [i \in 1..Len(df) |->
                              [c \in Columns |-> ExcelCell(df[i][c])]]]

\* texts of the model
T_Jo == <<"J", "o">>
T_Al == <<"A", "l">>
T_jx == <<"j", "@", "x">>
T_ax == <<"a", "@", "x">>
T_0310 == <<"2", "0", "2", "5", "-", "0", "3", "-", "1", "0">>
T_0401 == <<"2", "0", "2", "5", "-", "0", "4", "-", "0", "1">>
T_0105 == <<"2", "0", "2", "5", "-", "0", "1", "-", "0", "5">>
T_soon == <<"s", "o", "o", "n">>

\* rows as pd.read_excel returns them from files written outside the program
RowDueStale ==
    Row(StrCell(T_Jo), IntCell(98), StrCell(<<"2">>), Nan,
        IntCell(2), IntCell(1), IntCell(0),
        StrCell(T_0310), StrCell(T_jx), StrCell(T_0105))

RowPaidBlank ==
    Row(StrCell(T_Al), StrCell(<<"9", "7">>), StrCell(<<"1">>), StrCell(<<"c", "s">>),
        IntCell(2), IntCell(2), Nan,
        Nan, Nan, Nan)

RowOverpaid ==
    Row(StrCell(T_Jo), StrCell(<<"9", "8">>), StrCell(<<"2">>), StrCell(<<"c", "s">>),
        StrCell(<<"2">>), IntCell(3), IntCell(5),
        StrCell(T_0401), StrCell(T_ax), StrCell(T_0105))

RowUnparsed ==
    Row(StrCell(T_Al), StrCell(<<"9", "7">>), StrCell(<<"1">>), StrCell(<<"c", "s">>),
        IntCell(1), StrCell(<<"x">>), Nan,
        StrCell(T_soon), Nan, Nan)

SheetA == [readable |-> TRUE, header |-> STRICT_COLUMNS,
           rows |-> <<RowDueStale, RowPaidBlank>>]

RowApril ==
    Row(StrCell(T_Jo), StrCell(<<"9", "8">>), StrCell(<<"2">>), StrCell(<<"c", "s">>),
        IntCell(2), IntCell(0), IntCell(2),
        StrCell(T_0401), StrCell(T_jx), Nan)

SheetB == [readable |-> TRUE, header |-> STRICT_COLUMNS,
           rows |-> <<RowOverpaid, RowUnparsed, RowApril>>]

\* files whose header deviates: fields missing, another order, another
\* casing, one column more
SheetMissing == [readable |-> TRUE,
                 header |-> <<"Name", "Mobile Number", "Year">>,
                 rows |-> <<>>]

SheetReordered == [readable |-> TRUE,
                   header |-> <<"Mobile Number", "Name", "Year", "Dept",
                                "Fee Amount", "Fee Paid", "Balance",
                                "Due Date", "Email", "Fee Paid On">>,
                   rows |-> <<>>]

SheetCasing == [readable |-> TRUE,
                header |-> <<"name", "Mobile Number", "Year", "Dept",
                             "Fee Amount", "Fee Paid", "Balance",
                             "Due Date", "Email", "Fee Paid On">>,
                rows |-> <<>>]

SheetExtra == [readable |-> TRUE,
               header |-> STRICT_COLUMNS \o <<"Notes">>,
               rows |-> <<>>]

\* a file pd.read_excel raises on
SheetCorrupt == [readable |-> FALSE, header |-> <<>>, rows |-> <<>>]

PathA == <<"a", "fees.xlsx">>
PathB == <<"b", "fees.xlsx">>
PathNew == <<"a", "new.xlsx">>

\* the files QFileDialog.getOpenFileName can return at the start
InitialDisk ==
    (PathA :> SheetA) @@ (PathB :> SheetB)
    @@ (<<"a", "missing.xlsx">> :> SheetMissing)
    @@ (<<"a", "reordered.xlsx">> :> SheetReordered)
    @@ (<<"a", "casing.xlsx">> :> SheetCasing)
    @@ (<<"a", "extra.xlsx">> :> SheetExtra)
    @@ (<<"a", "corrupt.xlsx">> :> SheetCorrupt)

\* the paths QFileDialog.getSaveFileName returns in create_new_file
CreatePaths == {PathNew}

----------------------------------------------------------------------------
(* StudentDialog *)

\* QSpinBox.setMaximum(10_000_000); the minimum of a QSpinBox is 0
SpinMax == 10000000

SpinClamp(v) == IF v < 0 THEN 0 ELSE IF v > SpinMax THEN SpinMax ELSE v

\* what the user leaves in the widgets before pressing Save
Entry(name, amount, paid, due, email) ==
    [name |-> name, mobile |-> <<"9", "8">>, year |-> <<"2">>, dept |-> <<"c", "s">>,
     amount |-> amount, paid |-> paid, due |-> due, email |-> email]

UserEntries ==
    { Entry(<<"J", "o", " ">>, 2, 0, Date(2026, 3, 10), <<" ">>),
      Entry(T_Al, 2, 2, Date(2025, 4, 1), <<>>),
      Entry(T_Al, 1, 2, Date(2026, 3, 5), T_ax) }

\* QLineEdit(text) takes a str only: a NaN or an int read from the sheet raises
DialogOpens(data) ==
    \A c \in {"Name", "Mobile Number", "Year", "Dept", "Email", "Fee Paid On"} :
        data[c].t = "str"

\* StudentDialog.__init__ on an existing row: the widgets as the dialog shows them
DialogInit(data, day) ==
    [name |-> data["Name"].s, mobile |-> data["Mobile Number"].s,
     year |-> data["Year"].s, dept |-> data["Dept"].s,
     amount |-> SpinClamp(ToInt(data["Fee Amount"])),
     paid |-> SpinClamp(ToInt(data["Fee Paid"])),
     due |-> IF Truthy(data["Due Date"]) /\ to_datetime(data["Due Date"]).ok
             THEN to_datetime(data["Due Date"]) ELSE DateOf(day),
     email |-> data["Email"].s]

\* mutant: the due date is written day first, as dd-MM-yyyy
get_data_DayFirst(w, day) ==
    LET bal == w.amount - w.paid
    IN Row(StrCell(Strip(w.name)), StrCell(Strip(w.mobile)),
           StrCell(Strip(w.year)), StrCell(Strip(w.dept)),
           IntCell(w.amount), IntCell(w.paid), IntCell(bal),
           StrCell(Pad(NatToStr(w.due.d), 2) \o <<"-">> \o Pad(NatToStr(w.due.m), 2)
                   \o <<"-">> \o Pad(NatToStr(w.due.y), 4)),
           StrCell(Strip(w.email)),
           IF bal = 0 THEN StrCell(today_str(day)) ELSE StrCell(<<>>))

\* StudentDialog.get_data
get_data(w, day) ==
    LET bal == w.amount - w.paid
    IN Row(StrCell(Strip(w.name)), StrCell(Strip(w.mobile)),
           StrCell(Strip(w.year)), StrCell(Strip(w.dept)),
           IntCell(w.amount), IntCell(w.paid), IntCell(bal),
           StrCell(FormatDate(w.due)), StrCell(Strip(w.email)),
           IF bal = 0 THEN StrCell(today_str(day)) ELSE StrCell(<<>>))

----------------------------------------------------------------------------
(* FeeManagerApp: files *)

\* df.copy() as the view shows it: each row under its index label
ViewOf(df) == [i \in 1..Len(df) |-> [idx |-> i - 1, row |-> df[i]]]

Ran(op, arg, result) == [op |-> op, arg |-> arg, result |-> result]

\* open_file returns early behind a message box
Returns(op, arg, result) ==
    /\ last' = Ran(op, arg, result)
    /\ UNCHANGED <<disk, files, combo, selected_name, current_df_view, ops>>

\* a handler returns early, behind a message box at most, or an exception
\* leaves the slot before anything is assigned
NoEffect ==
    UNCHANGED <<disk, files, combo, selected_name, current_df_view, ops, last>>

\* self.files[name] = (path, df)
Store(name, path, df) ==
    [n \in (DOMAIN files) \cup {name} |->
        IF n = name THEN [path |-> path, df |-> df] ELSE files[n]]

\* combo.addItem / combo.setCurrentText: currentTextChanged fires, and
\* on_select_file runs, only when the current text changes
SelectAfterLoad(name, df) ==
    /\ combo' = combo \cup {name}
    /\ IF selected_name # name
       THEN /\ selected_name' = name
            /\ current_df_view' = ViewOf(df)
       ELSE UNCHANGED <<selected_name, current_df_view>>

create_new_file(path, ioOk) ==
    /\ UNCHANGED clock
    /\ IF ~ioOk
       THEN NoEffect  \* to_excel raises: "Error"
       ELSE /\ ops < MaxOps
            /\ ops' = ops + 1
            /\ disk' = [q \in (DOMAIN disk) \cup {path} |->
                           IF q = path THEN to_excel(<<>>) ELSE disk[q]]
            /\ files' = Store(basename(path), path, <<>>)
            /\ SelectAfterLoad(basename(path), <<>>)
            /\ last' = Ran("create_new_file", path, "Created")

open_file(path) ==
    /\ UNCHANGED clock
    /\ IF ~disk[path].readable
       THEN Returns("open_file", path, "Error")
       ELSE IF HeaderRejected(disk[path].header)
       THEN Returns("open_file", path, "Invalid format")
       ELSE LET df == _recalculate_business_rules(disk[path].rows, clock)
            IN /\ ops < MaxOps
               /\ ops' = ops + 1
               /\ UNCHANGED disk
               /\ files' = Store(basename(path), path, df)
               /\ SelectAfterLoad(basename(path), df)
               /\ last' = Ran("open_file", path, "Loaded")

save_current(ioOk) ==
    /\ UNCHANGED clock
    /\ IF selected_name = ""
       THEN NoEffect
       ELSE LET path == files[selected_name].path
                df == _recalculate_business_rules(files[selected_name].df, clock)
            IN IF ~ioOk
               THEN NoEffect  \* to_excel raises: "Error"
               ELSE /\ ops < MaxOps
                    /\ ops' = ops + 1
                    /\ disk' = [disk EXCEPT ![path] = to_excel(df)]
                    /\ files' = Store(selected_name, path, df)
                    /\ last' = Ran("save_current", path, "Saved")
                    /\ UNCHANGED <<combo, selected_name, current_df_view>>

\* the user picks another item of the combo box
on_select_file(name) ==
    /\ name \in combo
    /\ name # selected_name
    /\ selected_name' = name
    /\ current_df_view' = ViewOf(files[name].df)
    /\ last' = Ran("on_select_file", name, "ok")
    /\ UNCHANGED <<clock, disk, files, combo, ops>>

\* table.currentRow() as a handler reads it: refresh_table empties the table
\* (no current row) before it fills it, so the current row is -1 or a row of
\* the view that the user has clicked since
TableRows == (-1)..(Len(current_df_view) - 1)

\* date.today() moves on to the next day
Tick ==
    /\ clock < MaxDay
    /\ clock' = clock + 1
    /\ UNCHANGED <<disk, files, combo, selected_name, current_df_view, ops, last>>

----------------------------------------------------------------------------
(* FeeManagerApp: table / CRUD *)

\* self.files[...] = (path, df); self.current_df_view = df.copy(); refresh_table
Commit(df) ==
    /\ ops < MaxOps
    /\ ops' = ops + 1
    /\ files' = Store(selected_name, files[selected_name].path, df)
    /\ current_df_view' = ViewOf(df)
    /\ UNCHANGED <<disk, combo, selected_name>>

\* w is what the dialog holds when the user presses Save; accepted is dlg.exec_()
add_row(w, accepted) ==
    /\ UNCHANGED clock
    /\ IF selected_name = ""
       THEN NoEffect
       ELSE IF ~accepted
       THEN NoEffect  \* the dialog is cancelled
       ELSE LET df == files[selected_name].df
                rec == get_data(w, clock)
            IN /\ Len(df) < MaxRows
               /\ Commit(_recalculate_business_rules(Append(df, rec), clock))
               /\ last' = Ran("add_row", w, "Saved")

\* currentRow is table.currentRow(). keep: the user presses Save on the dialog
\* as it opened; otherwise the widgets hold w
edit_selected(currentRow, w, keep, accepted) ==
    /\ UNCHANGED clock
    /\ IF selected_name = ""
       THEN NoEffect
       ELSE LET df == files[selected_name].df
                row_idx == currentRow
            IN IF row_idx < 0
               THEN NoEffect
               ELSE IF row_idx >= Len(df)
               THEN NoEffect  \* df.index[row_idx] raises IndexError
               ELSE IF ~DialogOpens(df[row_idx + 1])
               THEN NoEffect  \* QLineEdit(value) raises TypeError
               ELSE IF ~accepted
               THEN NoEffect  \* the dialog is cancelled
               ELSE LET shown == DialogInit(df[row_idx + 1], clock)
                        updated == get_data(IF keep THEN shown ELSE w, clock)
                        edited == [df EXCEPT ![row_idx + 1] = updated]
                    IN /\ Commit(_recalculate_business_rules(edited, clock))
                       /\ last' = Ran("edit_selected",
                                      [row |-> row_idx, keep |-> keep], "Saved")

\* mutant: the row after the selected one is dropped (a 1-based index)
DropRow_OffByOne(df, row_idx) ==
    [i \in 1..(Len(df) - 1) |-> IF i <= row_idx + 1 THEN df[i] ELSE df[i + 1]]

\* df.drop(df.index[row_idx]).reset_index(drop=True)
DropRow(df, row_idx) ==
    [i \in 1..(Len(df) - 1) |-> IF i <= row_idx THEN df[i] ELSE df[i + 1]]

\* currentRow is table.currentRow()
delete_selected(currentRow) ==
    /\ UNCHANGED clock
    /\ IF selected_name = ""
       THEN NoEffect
       ELSE LET df == files[selected_name].df
                row_idx == currentRow
            IN IF row_idx < 0
               THEN NoEffect
               ELSE IF row_idx >= Len(df)
               THEN NoEffect  \* df.index[row_idx] raises IndexError
               ELSE /\ Commit(_recalculate_business_rules(DropRow(df, row_idx), clock))
                    /\ last' = Ran("delete_selected", row_idx, "Deleted")

----------------------------------------------------------------------------
(* FeeManagerApp: search and filter *)

\* re.search(pat, s) for a pattern of literal characters and ".", which
\* matches any character: Series.str.contains takes a regular expression
RegexMatchAt(pat, s, i) ==
    \A k \in 1..Len(pat) : pat[k] = "." \/ pat[k] = s[i + k - 1]

str_contains(s, pat) ==
    \E i \in 1..(Len(s) - Len(pat) + 1) : RegexMatchAt(pat, s, i)

\* df[mask].copy(): the rows the boolean Series mask keeps, each under its
\* index label
Masked(df, mask) == SelectSeq(ViewOf(df), LAMBDA e : mask[e.idx + 1])

\* the mask of apply_search for one row
SearchMask(row, keyword) ==
    \E c \in Columns : str_contains(Lower(str_of(row[c])), keyword)

\* self.current_df_view = ...; self.refresh_table(self.current_df_view)
Show(view) ==
    /\ current_df_view' = view
    /\ UNCHANGED <<disk, files, combo, selected_name, ops>>

\* text is self.search.text() after the user's edit
apply_search(text) ==
    /\ UNCHANGED clock
    /\ IF selected_name = ""
       THEN NoEffect
       ELSE LET keyword == Lower(Strip(text))
                df == files[selected_name].df
            IN /\ Show(IF keyword = <<>> THEN ViewOf(df)
                       ELSE Masked(df, [i \in 1..Len(df) |->
                                           SearchMask(df[i], keyword)]))
               /\ last' = Ran("apply_search", text, "ok")

T_All == <<"A", "l", "l">>

\* mutant: the year is ignored when a month is set
DateMask_MonthFirst(row, mon, yr_text) ==
    LET parsed == to_datetime(row["Due Date"])
    IN IF mon # T_All
       THEN parsed.ok /\ parsed.m = StrToNat(mon)
       ELSE yr_text # <<>> => (parsed.ok /\ parsed.y = StrToNat(yr_text))

\* the mask of apply_date_filter for one row
DateMask(row, mon, yr_text) ==
    LET parsed == to_datetime(row["Due Date"])
    IN /\ (mon # T_All => (parsed.ok /\ parsed.m = StrToNat(mon)))
       /\ (yr_text # <<>> => (parsed.ok /\ parsed.y = StrToNat(yr_text)))

\* mon is month_combo.currentText(), year is filter_year.text()
apply_date_filter(mon, year) ==
    /\ UNCHANGED clock
    /\ LET yr_text == Strip(year)
       IN IF selected_name = ""
          THEN NoEffect
          ELSE IF yr_text # <<>> /\ ~AllDigits(yr_text)
          THEN NoEffect  \* "Year must be numeric"
          ELSE /\ Show(LET df == files[selected_name].df
                        IN Masked(df, [i \in 1..Len(df) |->
                                          DateMask(df[i], mon, yr_text)]))
               /\ last' = Ran("apply_date_filter",
                              [mon |-> mon, year |-> year], "ok")

clear_filters ==
    /\ UNCHANGED clock
    /\ IF selected_name = ""
       THEN NoEffect
       ELSE /\ Show(ViewOf(files[selected_name].df))
            /\ last' = Ran("clear_filters", <<>>, "ok")

----------------------------------------------------------------------------
(* FeeManagerApp: PDF export *)

\* written is whether the user picks a path and _build_pdf ends without an
\* exception; the report holds the rows of self.current_df_view
export_pdf(written) ==
    /\ UNCHANGED clock
    /\ IF current_df_view = <<>>
       THEN NoEffect  \* "No data to export"
       ELSE IF ~written
       THEN NoEffect
       ELSE /\ last' = Ran("export_pdf", <<>>, "Exported")
            /\ UNCHANGED <<disk, files, combo, selected_name, current_df_view, ops>>

----------------------------------------------------------------------------
(* FeeManagerApp: email reminders *)

\* the rows send_reminders collects for "All with dues", in table order
DueRows(df) == Masked(df, [i \in 1..Len(df) |-> df[i]["Balance"].n > 0])

\* if not to or str(to).strip() == ""
MissingEmail(to) == ~Truthy(to) \/ Strip(str_of(to)) = <<>>

\* the loop "for row in recipients", from recipient i on. smtp[i] is whether
\* the SMTP session for recipient i ends without an exception; a NaN address
\* makes msg.as_string() raise inside the try, after the session has opened.
\* attempts: the recipients an SMTP session was opened for, in order.
RECURSIVE DeliveryLoop(_, _, _, _)
DeliveryLoop(recipients, smtp, i, acc) ==
    IF i > Len(recipients) THEN acc
    ELSE LET to == recipients[i].row["Email"]
         IN IF MissingEmail(to)
            THEN DeliveryLoop(recipients, smtp, i + 1,
                     [acc EXCEPT !.failed = Append(@, "(no email)")])
            ELSE IF smtp[i] /\ to.t = "str"
            THEN DeliveryLoop(recipients, smtp, i + 1,
                     [acc EXCEPT !.attempts = Append(@, recipients[i].idx),
                                 !.sent = @ + 1])
            ELSE DeliveryLoop(recipients, smtp, i + 1,
                     [acc EXCEPT !.attempts = Append(@, recipients[i].idx),
                                 !.failed = Append(@, "error")])

\* currentRow is table.currentRow(); prompts is whether the user confirms
\* every input dialog (the recipient choice, the SMTP settings)
send_reminders(choice, currentRow, prompts) ==
    /\ UNCHANGED clock
    /\ IF selected_name = ""
       THEN NoEffect
       ELSE LET df == _recalculate_business_rules(files[selected_name].df, clock)
                r == currentRow
                recipients == IF choice = "Selected row only"
                              THEN <<[idx |-> r, row |-> df[r + 1]]>>
                              ELSE DueRows(df)
            IN IF choice = "Selected row only" /\ r < 0
               THEN NoEffect
               ELSE IF choice = "Selected row only" /\ r >= Len(df)
               THEN NoEffect  \* df.iloc[r] raises IndexError
               ELSE IF choice = "Selected row only" /\ df[r + 1]["Balance"].n <= 0
               THEN NoEffect
               ELSE IF recipients = <<>>
               THEN NoEffect
               ELSE IF ~prompts
               THEN NoEffect  \* an input dialog is cancelled
               ELSE \E smtp \in [1..Len(recipients) -> BOOLEAN] :
                    LET done == DeliveryLoop(recipients, smtp, 1,
                                    [attempts |-> <<>>, sent |-> 0, failed |-> <<>>])
                    IN /\ last' = Ran("send_reminders",
                                      [choice |-> choice,
                                       row |-> IF choice = "Selected row only"
                                               THEN r ELSE -1,
                                       attempts |-> done.attempts,
                                       sent |-> done.sent,
                                       failed |-> Len(done.failed)],
                                      "Email result")
                       /\ UNCHANGED <<disk, files, combo, selected_name,
                                      current_df_view, ops>>

----------------------------------------------------------------------------
(* The program *)

SearchTexts == { <<>>, <<" ", "J", "O">>, <<".">>, <<"z">> }

MonthTexts == { T_All, <<"0", "3">> }

YearTexts == { <<>>, <<"2", "0", "2", "5">>, <<"x">> }

Init ==
    /\ disk = InitialDisk
    /\ clock = 0
    /\ files = <<>>
    /\ combo = {}
    /\ selected_name = ""
    /\ current_df_view = <<>>
    /\ ops = 0
    /\ last = Ran("__init__", <<>>, "ok")

Next ==
    \/ \E path \in CreatePaths, ioOk \in BOOLEAN : create_new_file(path, ioOk)
    \/ \E path \in DOMAIN disk : open_file(path)
    \/ \E ioOk \in BOOLEAN : save_current(ioOk)
    \/ \E name \in combo : on_select_file(name)
    \/ Tick
    \/ \E w \in UserEntries, accepted \in BOOLEAN : add_row(w, accepted)
    \/ \E r \in TableRows, w \in UserEntries, keep \in BOOLEAN, accepted \in BOOLEAN :
           edit_selected(r, w, keep, accepted)
    \/ \E r \in TableRows : delete_selected(r)
    \/ \E text \in SearchTexts : apply_search(text)
    \/ \E mon \in MonthTexts, year \in YearTexts : apply_date_filter(mon, year)
    \/ clear_filters
    \/ \E written \in BOOLEAN : export_pdf(written)
    \/ \E choice \in {"All with dues", "Selected row only"}, r \in TableRows,
          prompts \in BOOLEAN :
           send_reminders(choice, r, prompts)

Spec == Init /\ [][Next]_vars

----------------------------------------------------------------------------
(* Properties *)

\* a cell with nothing in it: a blank (NaN) or the empty text
IsEmptyCell(c) == c.t = "nan" \/ (c.t = "str" /\ c.s = <<>>)

\* a stored amount as an integer; anything else counts as 0
StoredInt(c) == IF c.t = "int" THEN c.n ELSE 0

Max0(v) == IF v < 0 THEN 0 ELSE v

\* every record of every stored table
StoredRows == UNION {{files[n].df[i] : i \in 1..Len(files[n].df)} : n \in DOMAIN files}

\* the table of the selected file
SelectedDf == files[selected_name].df

\* this step is handler op changing the store
StoreStep(op) == ops' = ops + 1 /\ last'.op = op

\* C1: after any sequence of open, add-row, edit-selected, delete-selected and
\* save, every record of every stored table has
\* Balance = max(0, Fee Amount - Fee Paid) over its stored integer amounts.
C1_BalanceRule ==
    \A r \in StoredRows :
        r["Balance"] = IntCell(Max0(StoredInt(r["Fee Amount"]) - StoredInt(r["Fee Paid"])))

\* C1 witness: a row was added to a table that holds an overpaid record
\* (Fee Paid > Fee Amount, Balance clipped to 0) and a record with dues.
C1_Witness ==
    /\ last.op = "add_row" /\ last.result = "Saved"
    /\ \E r \in StoredRows : r["Fee Paid"].n > r["Fee Amount"].n /\ r["Balance"].n = 0
    /\ \E r \in StoredRows : r["Balance"].n > 0

\* C2 (as claimed): in every stored record, Balance == 0 if and only if Due
\* Date is empty and Fee Paid On is non-empty, blank cells of a loaded file
\* included.
C2_PaidIffStamped ==
    \A r \in StoredRows :
        (r["Balance"].n = 0) <=>
            (IsEmptyCell(r["Due Date"]) /\ ~IsEmptyCell(r["Fee Paid On"]))

\* C3: open accepts a readable file if and only if its header is the strict
\* column list; a rejected open leaves the open tables, the selected file and
\* the current view as they were.
C3_StrictHeader ==
    [][\A path \in DOMAIN disk :
          (open_file(path) /\ disk[path].readable) =>
              IF disk[path].header = STRICT_COLUMNS
              THEN /\ last'.result = "Loaded"
                   /\ basename(path) \in DOMAIN files'
                   /\ files'[basename(path)].path = path
              ELSE /\ last'.result = "Invalid format"
                   /\ UNCHANGED <<files, selected_name, current_df_view>>]_vars

\* C3 witness: with a table open and shown, a file whose header has the ten
\* names in another order has just been rejected.
C3_Witness ==
    /\ last.op = "open_file" /\ last.result = "Invalid format"
    /\ last.arg = <<"a", "reordered.xlsx">>
    /\ selected_name # ""
    /\ current_df_view # <<>>

\* C4 (as claimed): creating or opening a file never replaces or changes the
\* table held for a file with another path, and a handler that changes the
\* selected file's table leaves every other table as it was.
C4_TablePerPath ==
    [][\A n \in DOMAIN files :
          /\ ((StoreStep("open_file") \/ StoreStep("create_new_file"))
                 /\ last'.arg # files[n].path)
             => (n \in DOMAIN files' /\ files'[n] = files[n])
          /\ ((StoreStep("add_row") \/ StoreStep("edit_selected")
                 \/ StoreStep("delete_selected") \/ StoreStep("save_current"))
                 /\ n # selected_name)
             => (n \in DOMAIN files' /\ files'[n] = files[n])]_vars

\* C5: add-row appends exactly one record at the end of the selected table:
\* the records stored before keep position and contents; the new record has
\* Balance = max(0, Fee Amount - Fee Paid); if Fee Paid >= Fee Amount its Due
\* Date is empty and its Fee Paid On is the current date, otherwise its Fee
\* Paid On is empty and its Due Date is the date the user entered.
C5_AddRowAppends ==
    [][StoreStep("add_row") =>
          LET old == files[selected_name].df
              new == files'[selected_name].df
              w == last'.arg
              rec == new[Len(new)]
          IN /\ Len(new) = Len(old) + 1
             /\ SubSeq(new, 1, Len(old)) = old
             /\ rec["Fee Amount"] = IntCell(w.amount)
             /\ rec["Fee Paid"] = IntCell(w.paid)
             /\ rec["Balance"] = IntCell(Max0(w.amount - w.paid))
             /\ IF w.paid >= w.amount
                THEN /\ rec["Due Date"] = StrCell(<<>>)
                     /\ rec["Fee Paid On"] = StrCell(FormatDate(DateOf(clock)))
                ELSE /\ rec["Fee Paid On"] = StrCell(<<>>)
                     /\ rec["Due Date"] = StrCell(FormatDate(w.due))]_vars

\* C5 witness: an overpaid record (Fee Paid > Fee Amount) has been appended to
\* a table that already held records, on a later day than the session began.
C5_Witness ==
    /\ last.op = "add_row" /\ last.result = "Saved"
    /\ last.arg.paid > last.arg.amount
    /\ Len(SelectedDf) = 3
    /\ clock > 0

\* C6: delete at a valid index i of a table of n records leaves n-1 records,
\* those formerly at other positions, in their order, contents unchanged.
C6_DeleteReindexes ==
    [][StoreStep("delete_selected") =>
          LET old == files[selected_name].df
              new == files'[selected_name].df
              i == last'.arg
          IN /\ Len(new) = Len(old) - 1
             /\ \A k \in 1..Len(new) :
                    new[k] = IF k <= i THEN old[k] ELSE old[k + 1]]_vars

\* C6 witness: the first of two records has been deleted on a later day than
\* the table was loaded; the record left is now at index 0.
C6_Witness ==
    /\ last.op = "delete_selected" /\ last.result = "Deleted"
    /\ last.arg = 0
    /\ Len(SelectedDf) = 1
    /\ clock > 0

\* C7: recompute is idempotent, whatever the dates of the two applications:
\* recomputing a recomputed table changes nothing, for the stored tables and
\* for the tables of the files on disk; so a record with Balance == 0 and a
\* Fee Paid On keeps that Fee Paid On.
C7_RecomputeIdempotent ==
    /\ \A n \in DOMAIN files : \A d \in 0..MaxDay :
           _recalculate_business_rules(files[n].df, d) = files[n].df
    /\ \A path \in DOMAIN disk : \A d1 \in 0..MaxDay, d2 \in 0..MaxDay :
           LET once == _recalculate_business_rules(disk[path].rows, d1)
           IN _recalculate_business_rules(once, d2) = once

\* C7 witness: a stored record with Balance == 0 carries the Fee Paid On that
\* recompute gave it on the first day, and the date has advanced since.
C7_Witness ==
    /\ clock > 0
    /\ \E r \in StoredRows :
           /\ r["Balance"].n = 0
           /\ r["Fee Paid On"] = StrCell(FormatDate(FirstDay))

\* the record passes the month and year the user set (month "All" and an empty year set nothing)
DueDateWanted(row, mon, year) ==
    LET due == to_datetime(row["Due Date"])
        monthSet == mon # T_All
        yearSet == Strip(year) # <<>>
    IN /\ monthSet => (due.ok /\ due.m = StrToNat(mon))
       /\ yearSet => (due.ok /\ due.y = StrToNat(Strip(year)))

\* view shows, in table order, exactly the records df[i] with i in wanted
ShowsExactly(view, df, wanted) ==
    /\ \A k \in 1..Len(view) :
           /\ view[k].idx + 1 \in wanted
           /\ view[k].row = df[view[k].idx + 1]
    /\ \A k \in 1..(Len(view) - 1) : view[k].idx < view[k + 1].idx
    /\ \A i \in wanted : \E k \in 1..Len(view) : view[k].idx = i - 1

\* C8: the due-date filter shows, in table order, exactly the records whose
\* Due Date parses to a date of the selected month (if set) and the selected
\* year (if set); an empty or unparseable Due Date is excluded when a month or
\* a year is set; with neither set the whole table is shown.
C8_DueDateFilter ==
    (last.op = "apply_date_filter" /\ last.result = "ok") =>
        /\ ShowsExactly(current_df_view, SelectedDf,
                        {i \in 1..Len(SelectedDf) :
                            DueDateWanted(SelectedDf[i], last.arg.mon, last.arg.year)})
        /\ (last.arg.mon = T_All /\ Strip(last.arg.year) = <<>>)
               => Len(current_df_view) = Len(SelectedDf)
        /\ (last.arg.mon # T_All \/ Strip(last.arg.year) # <<>>)
               => \A k \in 1..Len(current_df_view) :
                      /\ ~IsEmptyCell(current_df_view[k].row["Due Date"])
                      /\ to_datetime(current_df_view[k].row["Due Date"]).ok

\* C8 witness: month 03 and year 2025 are set and the filter keeps one record
\* of a table that also holds a record due in month 03 of another year and a
\* record with an empty Due Date.
C8_Witness ==
    /\ last.op = "apply_date_filter" /\ last.result = "ok"
    /\ last.arg = [mon |-> <<"0", "3">>, year |-> <<"2", "0", "2", "5">>]
    /\ Len(current_df_view) = 1
    /\ \E i \in 1..Len(SelectedDf) : IsEmptyCell(SelectedDf[i]["Due Date"])
    /\ \E i \in 1..Len(SelectedDf) :
           /\ to_datetime(SelectedDf[i]["Due Date"]).ok
           /\ to_datetime(SelectedDf[i]["Due Date"]).y = 2026

\* s contains k as a substring
Contains(s, k) == \E i \in 1..(Len(s) - Len(k) + 1) : SubSeq(s, i, i + Len(k) - 1) = k

\* C9 (as claimed): search shows, in table order, exactly the records with a
\* field whose string representation contains the keyword as a
\* case-insensitive substring; the empty keyword shows every record.
C9_SearchSubstring ==
    (last.op = "apply_search" /\ last.result = "ok") =>
        LET keyword == Lower(Strip(last.arg))
        IN ShowsExactly(current_df_view, SelectedDf,
               {i \in 1..Len(SelectedDf) :
                   keyword = <<>> \/
                   \E c \in Columns : Contains(Lower(str_of(SelectedDf[i][c])), keyword)})

\* the index labels of the records of df with Balance > 0 and an Email
RECURSIVE DueWithEmail(_, _)
DueWithEmail(df, i) ==
    IF i > Len(df) THEN <<>>
    ELSE (IF df[i]["Balance"].n > 0 /\ ~IsEmptyCell(df[i]["Email"])
          THEN <<i - 1>> ELSE <<>>) \o DueWithEmail(df, i + 1)

\* C10 (as claimed): reminders to all with dues attempt delivery exactly once,
\* in table order, for each record with Balance > 0 and a non-empty Email and
\* for no other record, whatever deliveries fail; sent plus failed is the
\* number of those recipients.
C10_RemindAllDue ==
    (last.op = "send_reminders" /\ last.result = "Email result"
        /\ last.arg.choice = "All with dues") =>
        /\ last.arg.attempts = DueWithEmail(SelectedDf, 1)
        /\ last.arg.sent + last.arg.failed = Len(DueWithEmail(SelectedDf, 1))

\* the view shows records of the selected table as they are stored, in table
\* order: what a search, a date filter or clear-filters leaves
ViewOfStored ==
    /\ selected_name # ""
    /\ ShowsExactly(current_df_view, SelectedDf,
                    {current_df_view[k].idx + 1 : k \in 1..Len(current_df_view)}
                        \cap 1..Len(SelectedDf))
    /\ \A k \in 1..Len(current_df_view) :
           current_df_view[k].idx + 1 \in 1..Len(SelectedDf)

\* row r of the table widget shows the record stored at position r of the
\* selected table
ShownAt(r) ==
    /\ r + 1 \in 1..Len(current_df_view)
    /\ r + 1 \in 1..Len(SelectedDf)
    /\ current_df_view[r + 1].idx = r
    /\ current_df_view[r + 1].row = SelectedDf[r + 1]

\* C11 (as claimed): edit-selected, delete-selected and send-reminders
\* (selected row only) act on the record displayed at the selected row of the
\* current view, whatever searches and filters came before: the stored record
\* replaced, removed or mailed is the one shown at that row.
C11_ActsOnShownRow ==
    [][ViewOfStored =>
          /\ StoreStep("delete_selected") => ShownAt(last'.arg)
          /\ StoreStep("edit_selected") => ShownAt(last'.arg.row)
          /\ (last'.op = "send_reminders" /\ clock' = clock)
                 => (last'.arg.choice = "Selected row only"
                        => ShownAt(last'.arg.row))]_vars

\* the record is settled and carries the date it was settled on
PaidAndStamped(r) == r["Balance"] = IntCell(0) /\ ~IsEmptyCell(r["Fee Paid On"])

\* C12 (as claimed): once a stored record has Balance == 0 and a non-empty
\* Fee Paid On, no save, add or delete of other records, and no edit-selected
\* that leaves its Fee Amount and Fee Paid as they were, replaces that Fee
\* Paid On, whatever the current date.
C12_PaidOnKept ==
    [][(StoreStep("save_current") \/ StoreStep("add_row")
           \/ StoreStep("edit_selected") \/ StoreStep("delete_selected")) =>
          LET old == files[selected_name].df
              new == files'[selected_name].df
              removed == IF last'.op = "delete_selected" THEN last'.arg + 1 ELSE 0
          IN \A i \in 1..Len(old) :
                 LET j == IF removed # 0 /\ i > removed THEN i - 1 ELSE i
                 IN (/\ i # removed
                     /\ PaidAndStamped(old[i])
                     /\ new[j]["Fee Amount"] = old[i]["Fee Amount"]
                     /\ new[j]["Fee Paid"] = old[i]["Fee Paid"])
                    => new[j]["Fee Paid On"] = old[i]["Fee Paid On"]]_vars

\* the handlers that fill the view from the whole table
ShowsWholeTable ==
    \/ last.op \in {"on_select_file", "add_row", "edit_selected",
                    "delete_selected", "clear_filters"}
    \/ last.op = "create_new_file" /\ last.result = "Created"
    \/ last.op = "open_file" /\ last.result = "Loaded"

\* C13 (as claimed): whenever a file is selected, the current view (the rows
\* displayed and exported to PDF) is an order-preserving sub-sequence of that
\* file's stored table, and it is the stored table when no search or date
\* filter has been applied since the table was last loaded, selected or
\* changed; re-creating or re-opening the selected file's name included.
C13_ViewOfTable ==
    selected_name # "" =>
        /\ ViewOfStored
        /\ ShowsWholeTable => current_df_view = ViewOf(SelectedDf)

====
